---- MODULE Spec2Model ----
(***************************************************************************)
(* timeOptimalPlanner.py: the cost graph built by minimizePathCost, the    *)
(* loop of dijkstra, the reader parseInput, main, and the command line     *)
(* handling of the __main__ block.                                         *)
(*                                                                         *)
(* Python lists are sequences (element k of a list is At(list, k)), dicts  *)
(* are functions whose DOMAIN is the key set.  A string is the sequence of *)
(* its pieces: "-ip" is <<"-", "i", "p">>, "--vel" is <<"-", "-", "vel">>, *)
(* the text 12,16 is <<"12,16">>.  Times are seconds; the                  *)
(* positions and velocities drawn below make every distance and every      *)
(* quotient distance/velocity an integer, so the float arithmetic of the   *)
(* program is exact on them (Sqrt and Div have no value otherwise).        *)
(***************************************************************************)
EXTENDS Integers, Sequences, FiniteSets, TLC

VARIABLES
    pc,             \* position in the program
    waypointList,   \* list (per test case) of lists of [x, y]
    costList,       \* list (per test case) of lists of penalties
    robotVelocity,
    dwellTime,
    caseIdx,        \* i of minimizePathCost's loop
    minCostList,    \* minCostList of minimizePathCost
    edgeCost,       \* dict of dicts: edgeCost[j][k]
    costToGo,       \* dict of dijkstra
    nodeList,       \* list of alive nodes of dijkstra
    minCost,        \* value returned by dijkstra
    settled,        \* history: <<node, costToGo[node]>> of each extraction, in order
    fileLines,      \* the input file: per line, the integers of line.split()
    lineNo,         \* lines of the file parseInput has read
    numWaypoints,   \* numWaypoints of parseInput
    parseIdx,       \* i of parseInput
    initPosition,
    finalPosition,
    outFile,        \* the lines written by writeToFile
    argv,           \* sys.argv[1:]
    args,           \* the arguments getopt has still to read
    opts,           \* the (opt, arg) pairs of getopt still to be handled
    filename,
    initialPosition \* the name assigned at line 259

planVars == <<waypointList, costList, robotVelocity, dwellTime, caseIdx,
              minCostList, edgeCost, costToGo, nodeList, minCost, settled>>

ioVars == <<fileLines, lineNo, numWaypoints, parseIdx, initPosition,
            finalPosition, outFile>>

cliVars == <<argv, args, opts, filename, initialPosition>>

vars == <<pc, planVars, ioVars, cliVars>>

----------------------------------------------------------------------------
(* Bounds of the model *)

\* interior waypoints of a test case handed to minimizePathCost
MaxWaypoints == 3

\* nodes of a graph handed directly to dijkstra
MaxNodes == 4

\* Positions with integer, even pairwise distances (a 12 x 16 rectangle and
\* its centre).  The initial position is always [0, 0] (line 216; line 259
\* assigns another name), and a waypoint read from a file has x # 0 (line 96).
Positions == {<<0, 0>>, <<12, 0>>, <<12, 16>>, <<0, 16>>, <<6, 8>>}

Penalties == {0, 5}

Velocities == {1, 2}

DwellTimes == {0, 5}

Weights == {1, 2}

----------------------------------------------------------------------------
(* Python and numpy primitives *)

\* list[k] with Python's indexing: from 0, negative k counts from the end
At(list, k) == IF k >= 0 THEN list[k + 1] ELSE list[Len(list) + k + 1]

\* range(a, b) as a list
Range(a, b) == [n \in 1..(IF b > a THEN b - a ELSE 0) |-> a + n - 1]

RECURSIVE Sum(_)
\* sum(list)
Sum(list) == IF list = <<>> THEN 0 ELSE Head(list) + Sum(Tail(list))

\* np.inf
Inf == -1

\* a < b on floats with np.inf
Less(a, b) == a # Inf /\ (b = Inf \/ a < b)

\* Plus adding the operands whatever they are
PlusNoInf(a, b) == a + b

\* a + b on floats with np.inf
Plus(a, b) == IF a = Inf \/ b = Inf THEN Inf ELSE a + b

\* np.sqrt(n)
Sqrt(n) == CHOOSE r \in 0..n : r * r = n

\* a / b (float division)
Div(a, b) == CHOOSE q \in 0..a : q * b = a

\* pow(x, 2)
Pow2(x) == x * x

----------------------------------------------------------------------------
(* minimizePathCost: the graph of one test case *)

\* SkippingCost over range(j+2, k)
SkippingCostShort(costs, j, k) == Sum([n \in 1..Len(Range(j + 2, k)) |-> At(costs, Range(j + 2, k)[n] - 1)])

\* skippingCost = sum([costList[i][l-1] for l in range(j+1,k)])
SkippingCost(costs, j, k) == Sum([n \in 1..Len(Range(j + 1, k)) |-> At(costs, Range(j + 1, k)[n] - 1)])

\* distance = np.sqrt(pow(distanceXY[0],2) + pow(distanceXY[1],2))
Distance(p, q) == Sqrt(Pow2(q[1] - p[1]) + Pow2(q[2] - p[2]))

\* travelCost = distance/robotVelocity + dwellTime
TravelCost(p, q, vel, dwell) == Div(Distance(p, q), vel) + dwell

\* the dict edgeCost after the loops over j and k
BuildEdgeCost(wps, costs, vel, dwell) ==
    LET num == Len(wps)    \* numWaypoints of line 153
    IN  [j \in 0..(num - 2) |->
            [k \in (j + 1)..(num - 1) |->
                TravelCost(At(wps, j), At(wps, k), vel, dwell)
                    + SkippingCost(costs, j, k)]]

----------------------------------------------------------------------------
(* dijkstra *)

\* min(costToGo, key=costToGo.get): the first key, in the dict's iteration
\* order (ascending for these integer keys), whose value is minimal
MinNode(ctg) ==
    CHOOSE i \in DOMAIN ctg :
        \A k \in DOMAIN ctg : ~Less(ctg[k], ctg[i]) /\ (ctg[k] = ctg[i] => i <= k)

\* nodeList.pop(nodeList.index(i))
Remove(list, i) == SelectSeq(list, LAMBDA x : x # i)

InList(list, x) == \E n \in 1..Len(list) : list[n] = x

MaxKey(d) == CHOOSE m \in DOMAIN d : \A k \in DOMAIN d : k <= m

\* Relax without the test of line 54
RelaxAlways(ctg, ec, i, alive) ==
    [j \in DOMAIN ctg |->
        IF j \in DOMAIN ec[i] /\ InList(alive, j)
        THEN Plus(ctg[i], ec[i][j])
        ELSE ctg[j]]

\* the loop over the alive neighbors j of i
Relax(ctg, ec, i, alive) ==
    [j \in DOMAIN ctg |->
        IF j \in DOMAIN ec[i] /\ InList(alive, j) /\ Less(Plus(ctg[i], ec[i][j]), ctg[j])
        THEN Plus(ctg[i], ec[i][j])
        ELSE ctg[j]]

\* costToGo.pop(i)
DictPop(d, i) == [k \in DOMAIN d \ {i} |-> d[k]]

\* lines 22-35
DijkstraInit ==
    /\ pc = "dijkstra"
    /\ nodeList' = [n \in 1..(MaxKey(edgeCost) + 2) |-> n - 1]
    /\ costToGo' = [n \in 0..(MaxKey(edgeCost) + 1) |-> IF n = 0 THEN 0 ELSE Inf]
    /\ settled' = <<>>
    /\ pc' = "dijkstra_loop"
    /\ UNCHANGED <<waypointList, costList, robotVelocity, dwellTime, caseIdx,
                   minCostList, edgeCost, minCost,
                   ioVars, cliVars>>

\* one iteration that ends at the break of line 46
DijkstraBreak ==
    /\ pc = "dijkstra_loop"
    /\ LET i == MinNode(costToGo)
       IN  /\ Remove(nodeList, i) = <<>>
           /\ nodeList' = Remove(nodeList, i)
           /\ settled' = Append(settled, <<i, costToGo[i]>>)
    /\ pc' = "dijkstra_exit"
    /\ UNCHANGED <<waypointList, costList, robotVelocity, dwellTime, caseIdx,
                   minCostList, edgeCost, costToGo, minCost,
                   ioVars, cliVars>>

\* one iteration that reaches line 58
DijkstraRelax ==
    /\ pc = "dijkstra_loop"
    /\ LET i == MinNode(costToGo)
       IN  /\ Remove(nodeList, i) # <<>>
           /\ i \in DOMAIN edgeCost
           /\ nodeList' = Remove(nodeList, i)
           /\ costToGo' = DictPop(Relax(costToGo, edgeCost, i, Remove(nodeList, i)), i)
           /\ settled' = Append(settled, <<i, costToGo[i]>>)
    /\ pc' = "dijkstra_loop"
    /\ UNCHANGED <<waypointList, costList, robotVelocity, dwellTime, caseIdx,
                   minCostList, edgeCost, minCost,
                   ioVars, cliVars>>

\* one iteration in which edgeCost[i] of line 48 raises KeyError
DijkstraKeyError ==
    /\ pc = "dijkstra_loop"
    /\ LET i == MinNode(costToGo)
       IN  /\ Remove(nodeList, i) # <<>>
           /\ i \notin DOMAIN edgeCost
           /\ nodeList' = Remove(nodeList, i)
           /\ settled' = Append(settled, <<i, costToGo[i]>>)
    /\ pc' = "KeyError"
    /\ UNCHANGED <<waypointList, costList, robotVelocity, dwellTime, caseIdx,
                   minCostList, edgeCost, costToGo, minCost,
                   ioVars, cliVars>>

\* lines 60-63
DijkstraReturn ==
    /\ pc = "dijkstra_exit"
    /\ minCost' = costToGo[CHOOSE k \in DOMAIN costToGo : \A m \in DOMAIN costToGo : k <= m]
    /\ pc' = "dijkstra_returned"
    /\ UNCHANGED <<waypointList, costList, robotVelocity, dwellTime, caseIdx,
                   minCostList, edgeCost, costToGo, nodeList, settled,
                   ioVars, cliVars>>

----------------------------------------------------------------------------
(* minimizePathCost *)

\* lines 148-174 for test case i, then the call of line 177
MinimizeCase ==
    /\ pc = "minimize"
    /\ caseIdx < Len(waypointList)
    /\ edgeCost' = BuildEdgeCost(At(waypointList, caseIdx), At(costList, caseIdx),
                                 robotVelocity, dwellTime)
    /\ pc' = "dijkstra"
    /\ UNCHANGED <<waypointList, costList, robotVelocity, dwellTime, caseIdx,
                   minCostList, costToGo, nodeList, minCost, settled,
                   ioVars, cliVars>>

\* the assignment of line 177
MinimizeStore ==
    /\ pc = "dijkstra_returned"
    /\ minCostList' = [minCostList EXCEPT ![caseIdx + 1] = minCost]
    /\ caseIdx' = caseIdx + 1
    /\ pc' = "minimize"
    /\ UNCHANGED <<waypointList, costList, robotVelocity, dwellTime,
                   edgeCost, costToGo, nodeList, minCost, settled,
                   ioVars, cliVars>>

\* line 179
MinimizeReturn ==
    /\ pc = "minimize"
    /\ caseIdx = Len(waypointList)
    /\ pc' = "minimize_returned"
    /\ UNCHANGED <<waypointList, costList, robotVelocity, dwellTime, caseIdx,
                   minCostList, edgeCost, costToGo, nodeList, minCost, settled,
                   ioVars, cliVars>>

----------------------------------------------------------------------------
(* Spec: minimizePathCost called with one augmented test case *)

SeqsUpTo(S, n) == UNION {[1..m -> S] : m \in 0..n}

\* no file is being read or written
IoIdle ==
    /\ fileLines = <<>>
    /\ lineNo = 0
    /\ numWaypoints = <<>>
    /\ parseIdx = 0
    /\ outFile = <<>>

\* no command line is being read
CliIdle ==
    /\ argv = <<>>
    /\ args = <<>>
    /\ opts = <<>>
    /\ filename = <<"sample.txt">>
    /\ initialPosition = <<>>

\* lines 145-146, with the arguments main passes at line 204
Init ==
    /\ pc = "minimize"
    /\ \E interior \in SeqsUpTo(Positions \ {<<0, 0>>, <<0, 16>>}, MaxWaypoints),
          goal \in Positions \ {<<0, 0>>} :
          waypointList = << <<(<<0, 0>>)>> \o interior \o <<goal>> >>
    /\ costList \in {<< c >> : c \in [1..(Len(waypointList[1]) - 2) -> Penalties]}
    /\ robotVelocity \in Velocities
    /\ dwellTime \in DwellTimes
    /\ caseIdx = 0
    /\ minCostList = [n \in 1..Len(waypointList) |-> 0]
    /\ edgeCost = <<>>
    /\ costToGo = <<>>
    /\ nodeList = <<>>
    /\ minCost = 0
    /\ settled = <<>>
    /\ initPosition = waypointList[1][1]
    /\ finalPosition = waypointList[1][Len(waypointList[1])]
    /\ IoIdle
    /\ CliIdle

Next ==
    \/ MinimizeCase
    \/ DijkstraInit
    \/ DijkstraBreak
    \/ DijkstraRelax
    \/ DijkstraKeyError
    \/ DijkstraReturn
    \/ MinimizeStore
    \/ MinimizeReturn

Spec == Init /\ [][Next]_vars

----------------------------------------------------------------------------
(* SpecDijkstra: dijkstra called with any forward graph on keys 0..n-2 *)

Edges(n) == {e \in (0..(n - 2)) \X (1..(n - 1)) : e[1] < e[2]}

\* the dict of dicts holding the edges e with w[e] # 0, with weight w[e]
GraphOf(n, w) ==
    [i \in 0..(n - 2) |->
        [j \in {k \in (i + 1)..(n - 1) : w[<<i, k>>] # 0} |-> w[<<i, j>>]]]

InitDijkstra ==
    /\ pc = "dijkstra"
    /\ \E n \in 2..MaxNodes : \E w \in [Edges(n) -> Weights \cup {0}] :
          edgeCost = GraphOf(n, w)
    /\ waypointList = <<>>
    /\ costList = <<>>
    /\ robotVelocity = 1
    /\ dwellTime = 0
    /\ caseIdx = 0
    /\ minCostList = <<>>
    /\ costToGo = <<>>
    /\ nodeList = <<>>
    /\ minCost = 0
    /\ settled = <<>>
    /\ initPosition = <<0, 0>>
    /\ finalPosition = <<0, 0>>
    /\ IoIdle
    /\ CliIdle

NextDijkstra ==
    \/ DijkstraInit
    \/ DijkstraBreak
    \/ DijkstraRelax
    \/ DijkstraKeyError
    \/ DijkstraReturn

SpecDijkstra == InitDijkstra /\ [][NextDijkstra]_vars

----------------------------------------------------------------------------
(* parseInput *)

\* list[k].append(x), k a Python index
AppendAt(list, k, x) ==
    LET n == IF k >= 0 THEN k + 1 ELSE Len(list) + k + 1
    IN  [list EXCEPT ![n] = Append(@, x)]

\* line 196 and lines 82-91
ParseStart ==
    /\ pc = "main"
    /\ numWaypoints' = <<>>
    /\ waypointList' = << <<>> >>
    /\ costList' = << <<>> >>
    /\ parseIdx' = 0
    /\ lineNo' = 0
    /\ pc' = "parse_loop"
    /\ UNCHANGED <<robotVelocity, dwellTime, caseIdx, minCostList, edgeCost,
                   costToGo, nodeList, minCost, settled, fileLines,
                   initPosition, finalPosition, outFile, cliVars>>

\* lines 94-95: a line without a token
ParseBlank ==
    /\ pc = "parse_loop"
    /\ lineNo < Len(fileLines)
    /\ Len(At(fileLines, lineNo)) = 0
    /\ lineNo' = lineNo + 1
    /\ UNCHANGED <<pc, planVars, fileLines, numWaypoints, parseIdx,
                   initPosition, finalPosition, outFile, cliVars>>

\* lines 96-97: a line whose first token is 0
ParseSentinel ==
    /\ pc = "parse_loop"
    /\ lineNo < Len(fileLines)
    /\ Len(At(fileLines, lineNo)) # 0
    /\ At(At(fileLines, lineNo), 0) = 0
    /\ lineNo' = lineNo + 1
    /\ pc' = "parse_validate"
    /\ UNCHANGED <<planVars, fileLines, numWaypoints, parseIdx,
                   initPosition, finalPosition, outFile, cliVars>>

\* lines 98-104: a line of one token
ParseCount ==
    /\ pc = "parse_loop"
    /\ lineNo < Len(fileLines)
    /\ Len(At(fileLines, lineNo)) = 1
    /\ At(At(fileLines, lineNo), 0) # 0
    /\ parseIdx' = parseIdx + 1
    /\ numWaypoints' = Append(numWaypoints, At(At(fileLines, lineNo), 0))
    /\ waypointList' = IF parseIdx + 1 > 1 THEN Append(waypointList, <<>>) ELSE waypointList
    /\ costList' = IF parseIdx + 1 > 1 THEN Append(costList, <<>>) ELSE costList
    /\ lineNo' = lineNo + 1
    /\ UNCHANGED <<pc, robotVelocity, dwellTime, caseIdx, minCostList, edgeCost,
                   costToGo, nodeList, minCost, settled, fileLines,
                   initPosition, finalPosition, outFile, cliVars>>

\* lines 105-109: a line of three tokens
ParseTriple ==
    /\ pc = "parse_loop"
    /\ lineNo < Len(fileLines)
    /\ Len(At(fileLines, lineNo)) = 3
    /\ At(At(fileLines, lineNo), 0) # 0
    /\ LET a == At(At(fileLines, lineNo), 0)
           b == At(At(fileLines, lineNo), 1)
           c == At(At(fileLines, lineNo), 2)
       IN  /\ waypointList' = AppendAt(waypointList, parseIdx - 1, <<a, b>>)
           /\ costList' = AppendAt(costList, parseIdx - 1, c)
    /\ lineNo' = lineNo + 1
    /\ UNCHANGED <<pc, robotVelocity, dwellTime, caseIdx, minCostList, edgeCost,
                   costToGo, nodeList, minCost, settled, fileLines,
                   numWaypoints, parseIdx, initPosition, finalPosition,
                   outFile, cliVars>>

\* line 107 raises ValueError: a line of two, or more than three, tokens
ParseBadLine ==
    /\ pc = "parse_loop"
    /\ lineNo < Len(fileLines)
    /\ Len(At(fileLines, lineNo)) \notin {0, 1, 3}
    /\ At(At(fileLines, lineNo), 0) # 0
    /\ lineNo' = lineNo + 1
    /\ pc' = "ValueError"
    /\ UNCHANGED <<planVars, fileLines, numWaypoints, parseIdx,
                   initPosition, finalPosition, outFile, cliVars>>

\* line 92: the file has no more lines
ParseEOF ==
    /\ pc = "parse_loop"
    /\ lineNo = Len(fileLines)
    /\ pc' = "parse_validate"
    /\ UNCHANGED <<planVars, ioVars, cliVars>>

\* the condition of lines 111-112 holds for no i
CountsMatch ==
    \A i \in 0..(Len(numWaypoints) - 1) :
        ~(~(Len(At(waypointList, i)) = At(numWaypoints, i))
            \/ ~(Len(At(costList, i)) = At(numWaypoints, i)))

\* line 113
ParseMismatch ==
    /\ pc = "parse_validate"
    /\ ~CountsMatch
    /\ pc' = "InputMismatch"
    /\ UNCHANGED <<planVars, ioVars, cliVars>>

\* line 115
ParseReturn ==
    /\ pc = "parse_validate"
    /\ CountsMatch
    /\ pc' = "augment"
    /\ UNCHANGED <<planVars, ioVars, cliVars>>

----------------------------------------------------------------------------
(* main *)

\* lines 199-201
MainAugment ==
    /\ pc = "augment"
    /\ waypointList' = [i \in 1..Len(waypointList) |->
                            <<initPosition>> \o waypointList[i] \o <<finalPosition>>]
    /\ pc' = "call_minimize"
    /\ UNCHANGED <<costList, robotVelocity, dwellTime, caseIdx, minCostList,
                   edgeCost, costToGo, nodeList, minCost, settled, ioVars, cliVars>>

\* line 204 and lines 145-146
MinimizeEnter ==
    /\ pc = "call_minimize"
    /\ minCostList' = [n \in 1..Len(waypointList) |-> 0]
    /\ caseIdx' = 0
    /\ pc' = "minimize"
    /\ UNCHANGED <<waypointList, costList, robotVelocity, dwellTime, edgeCost,
                   costToGo, nodeList, minCost, settled, ioVars, cliVars>>

\* lines 207-210: one line per entry; np.round(x, 3) of a whole number of
\* seconds is that number
MainWrite ==
    /\ pc = "minimize_returned"
    /\ outFile' = [n \in 1..Len(minCostList) |-> minCostList[n]]
    /\ pc' = "done"
    /\ UNCHANGED <<planVars, fileLines, lineNo, numWaypoints, parseIdx,
                   initPosition, finalPosition, cliVars>>

----------------------------------------------------------------------------
(* SpecMain: main called with the default velocity and dwell time *)

\* lines of the input file
MaxLines == 5

\* the lines a file is made of: no token, the sentinel, a count, x y penalty,
\* and a line of two integers
Lines == {<<>>, <<0>>, <<1>>, <<2>>, <<12, 16, 0>>, <<6, 8, 5>>, <<6, 8>>}

InitMain ==
    /\ pc = "main"
    /\ fileLines \in SeqsUpTo(Lines, MaxLines)
    /\ initPosition = <<0, 0>>
    /\ finalPosition \in {<<12, 0>>, <<12, 16>>}
    /\ robotVelocity = 2
    /\ dwellTime = 10
    /\ waypointList = <<>>
    /\ costList = <<>>
    /\ caseIdx = 0
    /\ minCostList = <<>>
    /\ edgeCost = <<>>
    /\ costToGo = <<>>
    /\ nodeList = <<>>
    /\ minCost = 0
    /\ settled = <<>>
    /\ lineNo = 0
    /\ numWaypoints = <<>>
    /\ parseIdx = 0
    /\ outFile = <<>>
    /\ CliIdle

NextMain ==
    \/ ParseStart
    \/ ParseBlank
    \/ ParseSentinel
    \/ ParseCount
    \/ ParseTriple
    \/ ParseBadLine
    \/ ParseEOF
    \/ ParseMismatch
    \/ ParseReturn
    \/ MainAugment
    \/ MinimizeEnter
    \/ MinimizeCase
    \/ DijkstraInit
    \/ DijkstraBreak
    \/ DijkstraRelax
    \/ DijkstraKeyError
    \/ DijkstraReturn
    \/ MinimizeStore
    \/ MinimizeReturn
    \/ MainWrite

SpecMain == InitMain /\ [][NextMain]_vars

----------------------------------------------------------------------------
(* the __main__ block: getopt.getopt and the loop over opts *)

\* "hf:ip:fp:v:d:" of line 223
ShortOpts == <<"h", "f", ":", "i", "p", ":", "f", "p", ":", "v", ":", "d", ":">>

\* the long options of line 223 and whether each ends with "="
LongOpts ==
    [help |-> FALSE, file |-> TRUE, initpos |-> TRUE, finalpos |-> TRUE,
     vel |-> TRUE, dwelltime |-> TRUE]

LongName(piece) ==
    CASE piece = "init-pos"   -> "initpos"
      [] piece = "final-pos"  -> "finalpos"
      [] piece = "dwell-time" -> "dwelltime"
      [] OTHER                -> piece

\* getopt.short_has_arg: the first place of opt in the option string decides
ShortKnown(opt) == \E n \in 1..Len(ShortOpts) : ShortOpts[n] = opt /\ opt # ":"

ShortHasArg(opt) ==
    LET n == CHOOSE m \in 1..Len(ShortOpts) :
                 ShortOpts[m] = opt /\ \A k \in 1..(m - 1) : ShortOpts[k] # opt
    IN  n + 1 <= Len(ShortOpts) /\ ShortOpts[n + 1] = ":"

RECURSIVE DoShorts(_, _, _)
\* getopt.do_shorts: the letters of one argument, in turn; a letter that
\* takes an argument takes the rest of the letters, or the next argument
DoShorts(os, optstring, rest) ==
    IF optstring = <<>>
    THEN [opts |-> os, args |-> rest, err |-> FALSE]
    ELSE LET opt == Head(optstring)
         IN  IF ~ShortKnown(opt)
             THEN [opts |-> os, args |-> rest, err |-> TRUE]
             ELSE IF ShortHasArg(opt)
             THEN IF Tail(optstring) = <<>>
                  THEN IF rest = <<>>
                       THEN [opts |-> os, args |-> rest, err |-> TRUE]
                       ELSE [opts |-> Append(os, <<(<<"-", opt>>), Head(rest)>>),
                             args |-> Tail(rest), err |-> FALSE]
                  ELSE [opts |-> Append(os, <<(<<"-", opt>>), Tail(optstring)>>),
                        args |-> rest, err |-> FALSE]
             ELSE DoShorts(Append(os, <<(<<"-", opt>>), <<>> >>), Tail(optstring), rest)

\* getopt.do_longs, for an option written without "="
DoLongs(os, name, rest) ==
    IF LongName(name) \notin DOMAIN LongOpts
    THEN [opts |-> os, args |-> rest, err |-> TRUE]
    ELSE IF LongOpts[LongName(name)]
    THEN IF rest = <<>>
         THEN [opts |-> os, args |-> rest, err |-> TRUE]
         ELSE [opts |-> Append(os, <<(<<"-", "-", name>>), Head(rest)>>),
               args |-> Tail(rest), err |-> FALSE]
    ELSE [opts |-> Append(os, <<(<<"-", "-", name>>), <<>> >>), args |-> rest, err |-> FALSE]

\* args[0].startswith('-') and args[0] != '-'
IsOption(arg) == Len(arg) >= 2 /\ arg[1] = "-"

\* the condition of getopt's loop
HeadIsOption == args # <<>> /\ IsOption(args[1])

\* one round of getopt's loop on the first of args
GetoptRound ==
    IF Len(args[1]) >= 3 /\ args[1][2] = "-"
    THEN DoLongs(opts, args[1][3], Tail(args))
    ELSE DoShorts(opts, Tail(args[1]), Tail(args))

GetoptStep ==
    /\ pc = "getopt"
    /\ HeadIsOption
    /\ ~GetoptRound.err
    /\ opts' = GetoptRound.opts
    /\ args' = GetoptRound.args
    /\ UNCHANGED <<pc, planVars, ioVars, argv, filename, initialPosition>>

\* lines 224-225
GetoptError ==
    /\ pc = "getopt"
    /\ HeadIsOption
    /\ GetoptRound.err
    /\ pc' = "BadArguments"
    /\ UNCHANGED <<planVars, ioVars, cliVars>>

\* getopt returns: no argument is left, or the first one is no option
GetoptReturn ==
    /\ pc = "getopt"
    /\ ~HeadIsOption
    /\ pc' = "options"
    /\ UNCHANGED <<planVars, ioVars, cliVars>>

\* int(i) for the i of arg.split(','): the texts that are lists of integers
IntLists == (<<"12,16">> :> <<12, 16>>) @@ (<<"1">> :> <<1>>) @@ (<<"5">> :> <<5>>)

\* float(arg): the texts that are numbers
Floats == (<<"1">> :> 1) @@ (<<"5">> :> 5)

OptIs(names) == opts # <<>> /\ Head(opts)[1] \in names

\* lines 229-251
OptHelp ==
    /\ pc = "options"
    /\ OptIs({<<"-", "h">>, <<"-", "-", "help">>})
    /\ pc' = "exit"
    /\ UNCHANGED <<planVars, ioVars, cliVars>>

\* lines 252-253
OptFile ==
    /\ pc = "options"
    /\ OptIs({<<"-", "f">>, <<"-", "-", "file">>})
    /\ filename' = Head(opts)[2]
    /\ opts' = Tail(opts)
    /\ UNCHANGED <<pc, planVars, ioVars, argv, args, initialPosition>>

\* lines 254-259
OptInitPos ==
    /\ pc = "options"
    /\ OptIs({<<"-", "i", "p">>, <<"-", "-", "init-pos">>})
    /\ Head(opts)[2] \in DOMAIN IntLists
    /\ initialPosition' = IntLists[Head(opts)[2]]
    /\ opts' = Tail(opts)
    /\ UNCHANGED <<pc, planVars, ioVars, argv, args, filename>>

\* lines 260-265
OptFinalPos ==
    /\ pc = "options"
    /\ OptIs({<<"-", "f", "p">>, <<"-", "-", "final-pos">>})
    /\ Head(opts)[2] \in DOMAIN IntLists
    /\ finalPosition' = IntLists[Head(opts)[2]]
    /\ opts' = Tail(opts)
    /\ UNCHANGED <<pc, planVars, fileLines, lineNo, numWaypoints, parseIdx,
                   initPosition, outFile, argv, args, filename, initialPosition>>

\* lines 266-267
OptVel ==
    /\ pc = "options"
    /\ OptIs({<<"-", "v">>, <<"-", "-", "vel">>})
    /\ Head(opts)[2] \in DOMAIN Floats
    /\ robotVelocity' = Floats[Head(opts)[2]]
    /\ opts' = Tail(opts)
    /\ UNCHANGED <<pc, waypointList, costList, dwellTime, caseIdx, minCostList,
                   edgeCost, costToGo, nodeList, minCost, settled, ioVars,
                   argv, args, filename, initialPosition>>

\* lines 268-269
OptDwellTime ==
    /\ pc = "options"
    /\ OptIs({<<"-", "t">>, <<"-", "-", "dwell-time">>})
    /\ Head(opts)[2] \in DOMAIN Floats
    /\ dwellTime' = Floats[Head(opts)[2]]
    /\ opts' = Tail(opts)
    /\ UNCHANGED <<pc, waypointList, costList, robotVelocity, caseIdx, minCostList,
                   edgeCost, costToGo, nodeList, minCost, settled, ioVars,
                   argv, args, filename, initialPosition>>

\* int() of line 258 or 264, or float() of line 267 or 269, raises ValueError
OptValueError ==
    /\ pc = "options"
    /\ \/ /\ OptIs({<<"-", "i", "p">>, <<"-", "-", "init-pos">>,
                      <<"-", "f", "p">>, <<"-", "-", "final-pos">>})
          /\ Head(opts)[2] \notin DOMAIN IntLists
       \/ /\ OptIs({<<"-", "v">>, <<"-", "-", "vel">>,
                      <<"-", "t">>, <<"-", "-", "dwell-time">>})
          /\ Head(opts)[2] \notin DOMAIN Floats
    /\ pc' = "ValueError"
    /\ UNCHANGED <<planVars, ioVars, cliVars>>

\* no branch of lines 229-269 takes the option: -i, -p, -d
OptIgnored ==
    /\ pc = "options"
    /\ OptIs({<<"-", "i">>, <<"-", "p">>, <<"-", "d">>})
    /\ opts' = Tail(opts)
    /\ UNCHANGED <<pc, planVars, ioVars, argv, args, filename, initialPosition>>

\* line 271
CallMain ==
    /\ pc = "options"
    /\ opts = <<>>
    /\ pc' = "main"
    /\ UNCHANGED <<planVars, ioVars, cliVars>>

----------------------------------------------------------------------------
(* SpecCli: the program started with a command line *)

\* arguments on the command line
MaxArgs == 4

\* the documented options, short and long, and the values given to them
Tokens ==
    {<<"-", "h">>, <<"-", "-", "help">>,
     <<"-", "f">>, <<"-", "-", "file">>,
     <<"-", "i", "p">>, <<"-", "-", "init-pos">>,
     <<"-", "f", "p">>, <<"-", "-", "final-pos">>,
     <<"-", "v">>, <<"-", "-", "vel">>,
     <<"-", "d">>, <<"-", "-", "dwell-time">>,
     <<"in.txt">>, <<"12,16">>, <<"1">>, <<"5">>}

\* lines 215-219
InitCli ==
    /\ pc = "getopt"
    /\ argv \in SeqsUpTo(Tokens, MaxArgs)
    /\ args = argv
    /\ opts = <<>>
    /\ filename = <<"sample.txt">>
    /\ initPosition = <<0, 0>>
    /\ finalPosition = <<100, 100>>
    /\ robotVelocity = 2
    /\ dwellTime = 10
    /\ initialPosition = <<>>
    /\ waypointList = <<>>
    /\ costList = <<>>
    /\ caseIdx = 0
    /\ minCostList = <<>>
    /\ edgeCost = <<>>
    /\ costToGo = <<>>
    /\ nodeList = <<>>
    /\ minCost = 0
    /\ settled = <<>>
    /\ IoIdle

NextCli ==
    \/ GetoptStep
    \/ GetoptError
    \/ GetoptReturn
    \/ OptHelp
    \/ OptFile
    \/ OptInitPos
    \/ OptFinalPos
    \/ OptVel
    \/ OptDwellTime
    \/ OptValueError
    \/ OptIgnored
    \/ CallMain

SpecCli == InitCli /\ [][NextCli]_vars

----------------------------------------------------------------------------
(* What the claims speak of, stated without the program's operators *)

InfAdd(a, b) == IF a = Inf \/ b = Inf THEN Inf ELSE a + b

InfLeq(a, b) == b = Inf \/ (a # Inf /\ a <= b)

\* the weight of edge a -> b, infinite when the graph has no such edge
EdgeWeight(ec, a, b) ==
    IF a \in DOMAIN ec /\ b \in DOMAIN ec[a] THEN ec[a][b] ELSE Inf

RECURSIVE PathWeight(_, _, _, _)
\* the weight of the path from -> (the nodes of S, ascending) -> target
PathWeight(ec, from, S, target) ==
    IF S = {}
    THEN EdgeWeight(ec, from, target)
    ELSE LET m == CHOOSE x \in S : \A y \in S : x <= y
         IN  InfAdd(EdgeWeight(ec, from, m), PathWeight(ec, m, S \ {m}, target))

\* the minimum weight over all strictly increasing node sequences 0 .. target
MinPathWeight(ec, target) ==
    IF target = 0
    THEN 0
    ELSE LET ws == {PathWeight(ec, 0, S, target) : S \in SUBSET (1..(target - 1))}
         IN  CHOOSE m \in ws : \A x \in ws : InfLeq(m, x)

\* the goal: the highest-index node
Goal(ec) == (CHOOSE m \in DOMAIN ec : \A k \in DOMAIN ec : k <= m) + 1

\* the augmented waypoints and the penalties of the test case being solved
Wps == waypointList[1]

Pens == costList[1]

NumInterior == Len(Pens)

RECURSIVE PenaltySumOf(_, _, _)
\* the penalties, among pens, of the interior waypoints at augmented indices
\* lo..hi (the waypoint at augmented index l has the l-th penalty)
PenaltySumOf(pens, lo, hi) ==
    IF lo > hi THEN 0 ELSE pens[lo] + PenaltySumOf(pens, lo + 1, hi)

\* distance/velocity + dwell between the waypoints at augmented indices a, b
LegOf(wps, a, b) ==
    LET dx == wps[b + 1][1] - wps[a + 1][1]
        dy == wps[b + 1][2] - wps[a + 1][2]
        d  == CHOOSE r \in 0..(dx * dx + dy * dy) : r * r = dx * dx + dy * dy
    IN  (d \div robotVelocity) + dwellTime

\* the cost graph of section 4.1 for augmented waypoints wps, penalties pens
GraphFor(wps, pens) ==
    [a \in 0..(Len(wps) - 2) |->
        [b \in (a + 1)..(Len(wps) - 1) |->
            LegOf(wps, a, b) + PenaltySumOf(pens, a + 1, b - 1)]]

PenaltySum(lo, hi) == PenaltySumOf(Pens, lo, hi)

Leg(a, b) == LegOf(Wps, a, b)

RECURSIVE VisitAllCost(_)
\* the cost of the path 0 -> 1 -> ... -> k
VisitAllCost(k) == IF k = 0 THEN 0 ELSE VisitAllCost(k - 1) + Leg(k - 1, k)

\* the weight of the single edge 0 -> N+1
DirectCost == Leg(0, NumInterior + 1) + PenaltySum(1, NumInterior)

AllPenaltiesZero == \A l \in 1..NumInterior : Pens[l] = 0

----------------------------------------------------------------------------
(* C2 *)

\* C2: edgeCost[i][j] exists exactly for 0 <= i < j <= N+1 and equals
\* distance(i, j)/robotVelocity + dwellTime + the penalties of the interior
\* waypoints at augmented indices i+1..j-1 (0 of them when j = i+1).
C2_EdgeCostFormula ==
    pc # "minimize" \/ caseIdx > 0 =>
        /\ Len(Wps) = NumInterior + 2
        /\ DOMAIN edgeCost = 0..NumInterior
        /\ \A i \in DOMAIN edgeCost :
              /\ DOMAIN edgeCost[i] = (i + 1)..(NumInterior + 1)
              /\ \A j \in DOMAIN edgeCost[i] :
                    edgeCost[i][j] = Leg(i, j) + PenaltySum(i + 1, j - 1)
              /\ edgeCost[i][i + 1] = Leg(i, i + 1)

C2_Witness ==
    /\ pc = "dijkstra"
    /\ NumInterior = 3
    /\ Pens[1] # Pens[2] /\ Pens[2] > 0
    /\ edgeCost[0][4] = Leg(0, 4) + Pens[1] + Pens[2] + Pens[3]
    /\ edgeCost[1][3] = Leg(1, 3) + Pens[2]

----------------------------------------------------------------------------
(* C1, C3, C4, C5, C10: under Spec *)

\* C1: on every graph built by minimizePathCost, dijkstra returns the minimum
\* weight over all strictly increasing node sequences from 0 to the goal.
C1_ReturnsMinimum ==
    /\ pc # "KeyError"
    /\ pc = "dijkstra_returned" => minCost = MinPathWeight(edgeCost, Goal(edgeCost))

\* C3: on every graph built by minimizePathCost the loop of dijkstra removes
\* one alive node per iteration, no iteration fails, and it exits with the
\* alive list empty after exactly n extractions.
C3_LoopTerminates ==
    /\ pc # "KeyError"
    /\ pc = "dijkstra_loop" => Len(settled) + Len(nodeList) = NumInterior + 2
    /\ pc = "dijkstra_exit" => nodeList = <<>> /\ Len(settled) = NumInterior + 2

\* C4: for every valid test case minimizePathCost computes a value that is
\* non-negative, at most the cost of the visit-all path and at most the
\* weight of the direct edge 0 -> N+1.
C4_ResultBounds ==
    /\ pc # "KeyError"
    /\ pc = "minimize_returned" =>
          /\ minCostList[1] >= 0
          /\ minCostList[1] <= VisitAllCost(NumInterior + 1)
          /\ minCostList[1] <= DirectCost

C10_SelectedIsFinal ==
    /\ pc = "dijkstra_loop" =>
          costToGo[MinNode(costToGo)] = MinPathWeight(edgeCost, MinNode(costToGo))
    /\ \A n \in 1..Len(settled) :
          /\ settled[n][2] = MinPathWeight(edgeCost, settled[n][1])
          /\ settled[n][1] \in DOMAIN costToGo => costToGo[settled[n][1]] = settled[n][2]
          /\ ~InList(nodeList, settled[n][1])

C10_Witness ==
    /\ pc = "dijkstra_loop"
    /\ Len(settled) >= 3
    /\ costToGo[MinNode(costToGo)] < edgeCost[0][MinNode(costToGo)]
    /\ \E k \in DOMAIN costToGo : k < MinNode(costToGo)

----------------------------------------------------------------------------
(* C8: under SpecDijkstra *)

GoalUnreachable == MinPathWeight(edgeCost, Goal(edgeCost)) = Inf

----------------------------------------------------------------------------
(* C6, C7: under SpecMain *)

IsSentinelLine(l) == l = <<0>>

IsCountLine(l) == Len(l) = 1 /\ l[1] # 0

IsTripleLine(l) == Len(l) = 3

\* the index of the first sentinel line, or one past the last line
EndOfCases(lines) ==
    IF \E n \in 1..Len(lines) : IsSentinelLine(lines[n])
    THEN CHOOSE n \in 1..Len(lines) :
            IsSentinelLine(lines[n]) /\ \A k \in 1..(n - 1) : ~IsSentinelLine(lines[k])
    ELSE Len(lines) + 1

\* the indices of the count lines, each opening a test case
CountLines(lines) == {n \in 1..(EndOfCases(lines) - 1) : IsCountLine(lines[n])}

\* the x y penalty lines of the test case opened at line n: those up to the
\* next count line or the end
TriplesOf(lines, n) ==
    {k \in (n + 1)..(EndOfCases(lines) - 1) :
        /\ IsTripleLine(lines[k])
        /\ \A m \in (n + 1)..k : ~IsCountLine(lines[m])}

\* some test case has a number of x y penalty lines other than its count
Mismatch(lines) ==
    \E n \in CountLines(lines) : Cardinality(TriplesOf(lines, n)) # lines[n][1]

\* M count lines, each followed by exactly its waypoint lines (x # 0), then
\* the sentinel as the last line
WellFormed(lines) ==
    /\ lines # <<>>
    /\ EndOfCases(lines) = Len(lines)
    /\ ~Mismatch(lines)
    /\ \A k \in 1..(Len(lines) - 1) :
          /\ IsCountLine(lines[k]) \/ (IsTripleLine(lines[k]) /\ lines[k][1] # 0)
          /\ IsTripleLine(lines[k]) => \E n \in CountLines(lines) : k \in TriplesOf(lines, n)

\* the index of the count line of the i-th test case
CountLineOf(lines, i) ==
    CHOOSE n \in CountLines(lines) :
        Cardinality({m \in CountLines(lines) : m <= n}) = i

\* the augmented waypoints and the penalties of the i-th test case of the file
FileWaypoints(lines, i) ==
    LET n == CountLineOf(lines, i)
    IN  <<initPosition>>
            \o [k \in 1..lines[n][1] |-> <<lines[n + k][1], lines[n + k][2]>>]
            \o <<finalPosition>>

FilePenalties(lines, i) ==
    LET n == CountLineOf(lines, i)
    IN  [k \in 1..lines[n][1] |-> lines[n + k][3]]

\* C6: for a well-formed file of M test cases the list minimizePathCost
\* returns has exactly M entries, the i-th being the minimum cost of the
\* i-th test case of the file, computed from that test case alone.
C6_OneResultPerCase ==
    WellFormed(fileLines) /\ pc = "minimize_returned" =>
        /\ Len(minCostList) = Cardinality(CountLines(fileLines))
        /\ \A i \in 1..Len(minCostList) :
              minCostList[i] =
                  MinPathWeight(GraphFor(FileWaypoints(fileLines, i),
                                         FilePenalties(fileLines, i)),
                                Len(FilePenalties(fileLines, i)) + 1)

\* C7: a file in which some test case's number of waypoint lines differs
\* from its count never gets past parseInput (no graph, no output), and
\* every test case parseInput returns holds as many waypoints and penalties
\* as its count line declared (none, without a count line).
C7_MismatchRejected ==
    /\ Mismatch(fileLines) =>
          /\ pc \in {"main", "parse_loop", "parse_validate", "InputMismatch", "ValueError"}
          /\ edgeCost = <<>>
          /\ outFile = <<>>
    /\ pc = "augment" =>
          \A i \in 1..Len(waypointList) :
              LET declared == IF i <= Len(numWaypoints) THEN numWaypoints[i] ELSE 0
              IN  Len(waypointList[i]) = declared /\ Len(costList[i]) = declared

----------------------------------------------------------------------------
(* C9: under SpecCli *)

FileOptions == {<<"-", "f">>, <<"-", "-", "file">>}

InitPosOptions == {<<"-", "i", "p">>, <<"-", "-", "init-pos">>}

FinalPosOptions == {<<"-", "f", "p">>, <<"-", "-", "final-pos">>}

VelOptions == {<<"-", "v">>, <<"-", "-", "vel">>}

DwellOptions == {<<"-", "d">>, <<"-", "-", "dwell-time">>}

\* the command line gives options their values: a documented option, then a
\* value of its kind, and no setting twice
DocumentedUse ==
    /\ Len(argv) % 2 = 0
    /\ \A k \in 1..Len(argv) :
          k % 2 = 1 =>
              \/ argv[k] \in FileOptions /\ argv[k + 1] = <<"in.txt">>
              \/ argv[k] \in InitPosOptions \cup FinalPosOptions /\ argv[k + 1] = <<"12,16">>
              \/ argv[k] \in VelOptions \cup DwellOptions /\ argv[k + 1] \in {<<"1">>, <<"5">>}
    /\ \A os \in {FileOptions, InitPosOptions, FinalPosOptions, VelOptions, DwellOptions} :
          Cardinality({k \in 1..Len(argv) : k % 2 = 1 /\ argv[k] \in os}) <= 1

Supplied(os) == \E k \in 1..Len(argv) : k % 2 = 1 /\ argv[k] \in os

SuppliedText(os) == argv[(CHOOSE k \in 1..Len(argv) : k % 2 = 1 /\ argv[k] \in os) + 1]

\* C9: each of the five values passed to main is the one supplied with its
\* documented option, short or long, and the documented default otherwise.
C9_OptionsReachMain ==
    DocumentedUse =>
        /\ pc \notin {"BadArguments", "ValueError"}
        /\ pc = "main" =>
              /\ filename = IF Supplied(FileOptions)
                            THEN SuppliedText(FileOptions) ELSE <<"sample.txt">>
              /\ initPosition = IF Supplied(InitPosOptions)
                                THEN IntLists[SuppliedText(InitPosOptions)] ELSE <<0, 0>>
              /\ finalPosition = IF Supplied(FinalPosOptions)
                                 THEN IntLists[SuppliedText(FinalPosOptions)] ELSE <<100, 100>>
              /\ robotVelocity = IF Supplied(VelOptions)
                                 THEN Floats[SuppliedText(VelOptions)] ELSE 2
              /\ dwellTime = IF Supplied(DwellOptions)
                             THEN Floats[SuppliedText(DwellOptions)] ELSE 10

====
